---- MODULE Spec2Model ----
(***************************************************************************)
(* Model of rqt_bag's Rosbag2 handle (src/rqt_bag/src/rqt_bag/rosbag2.py): *)
(* the handle's fields after __init__, the sqlite3 database the handle     *)
(* queries, and one action per public method.                              *)
(***************************************************************************)
EXTENDS Integers, Sequences, FiniteSets

VARIABLES
    reader,              \* self.reader is not None
    metadata,            \* self.metadata (unset on a recording handle)
    topic_metadata_map,  \* self.topic_metadata_map, in insertion order (unset on a recording handle)
    topics,              \* table `topics` of the database at self.db_name
    messages,            \* table `messages` of the database at self.db_name, in rowid order
    tieOrder,            \* the order in which the SQL engine emits rows with equal ORDER BY keys:
                         \* SQL leaves it open, the engine settles it from the database file
                         \* (its indexes, its plan), so it is one value while the file is unchanged
    atOpen,              \* what the store and the handle held when __init__ returned
    last                 \* the call that has just ended, its arguments and its outcome; Idle when
                         \* the caller has taken the outcome and no call is under way

vars == <<reader, metadata, topic_metadata_map, topics, messages, tieOrder, atOpen, last>>

(***************************************************************************)
(* Bounds of the model.                                                    *)
(***************************************************************************)
MaxRows == 3
MaxTime == 2

(***************************************************************************)
(* Values.                                                                 *)
(***************************************************************************)
None == "<None>"
UnknownTopic == "/zz"
TopicsTable ==
    << [id |-> 1, name |-> "/b", type |-> "TypeY", serialization_format |-> "cdr"],
       [id |-> 2, name |-> "/a", type |-> "TypeX", serialization_format |-> "cdr"] >>
TopicIds == {TopicsTable[i].id : i \in DOMAIN TopicsTable}
InstalledTypes == {"TypeX"}
RowTimes == 1..MaxTime
QueryTimes == 0..MaxTime
TopicArgs == {None, UnknownTopic} \cup {TopicsTable[i].name : i \in DOMAIN TopicsTable}
TieOrders == {"first_appended", "last_appended"}
Unset == [present |-> FALSE]
NoEntry == [topic |-> "", data |-> 0, timestamp |-> 0]
ForeignEntry == [topic |-> UnknownTopic, data |-> 0, timestamp |-> 1]

SetMin(S) == CHOOSE x \in S : \A y \in S : x <= y
SetMax(S) == CHOOSE x \in S : \A y \in S : x >= y

(***************************************************************************)
(* Result values: None, one Entry, a list of Entry, or another value.      *)
(***************************************************************************)
NoneV == [kind |-> "none", v |-> <<>>]
EntryV(e) == [kind |-> "entry", v |-> <<e>>]
ListV(s) == [kind |-> "list", v |-> s]
OtherV(k, x) == [kind |-> k, v |-> <<x>>]

(***************************************************************************)
(* The bag metadata the reader reports for a database.                     *)
(***************************************************************************)
MetadataOf(msgs) ==
    LET ts == {msgs[i].timestamp : i \in DOMAIN msgs}
    IN  [present |-> TRUE,
         bag_size |-> Len(msgs),
         starting_time |-> IF ts = {} THEN 0 ELSE SetMin(ts),
         duration |-> IF ts = {} THEN 0 ELSE SetMax(ts) - SetMin(ts)]

TopicMetadataMapOf(tops) ==
    [present |-> TRUE,
     items |-> [i \in DOMAIN tops |->
                  [name |-> tops[i].name, type |-> tops[i].type,
                   serialization_format |-> tops[i].serialization_format]]]

Snapshot == [messages |-> messages, topics |-> topics, metadata |-> metadata,
             topic_metadata_map |-> topic_metadata_map]

(***************************************************************************)
(* The record of a call. conn and cursor tell what the call did with the   *)
(* sqlite3 connection and cursor: "none" (it opened none), "closed" (it    *)
(* closed the one it opened) or "open" (it ended without closing it, so    *)
(* that the object stays open until the runtime finalizes it).             *)
(***************************************************************************)
CallRec(op, t0, t1, topic, entry, outcome, exc, value, conn, cursor) ==
    [op |-> op, t0 |-> t0, t1 |-> t1, topic |-> topic, entry |-> entry,
     outcome |-> outcome, exc |-> exc, value |-> value, conn |-> conn, cursor |-> cursor]

Idle == CallRec("", 0, 0, None, NoEntry, "idle", None, NoneV, "none", "none")

\* a call that returns without going to the database
Returned(op, t0, t1, topic, entry, value) ==
    CallRec(op, t0, t1, topic, entry, "returned", None, value, "none", "none")

\* a call that raises without going to the database
Raised(op, t0, t1, topic, entry, exc) ==
    CallRec(op, t0, t1, topic, entry, "raised", exc, NoneV, "none", "none")

\* The store holds up to MaxRows messages on the topics of TopicsTable, appended in
\* any order of timestamps; each row carries its own payload.
InitMode(mode) ==
    /\ reader = mode
    /\ topics = TopicsTable
    /\ \E n \in 0..MaxRows :
         \E f \in [1..n -> TopicIds \X RowTimes] :
            messages = [i \in 1..n |->
                          [topic_id |-> f[i][1], data |-> i, timestamp |-> f[i][2]]]
    /\ metadata = IF reader THEN MetadataOf(messages) ELSE Unset
    /\ topic_metadata_map = IF reader THEN TopicMetadataMapOf(topics) ELSE Unset
    /\ tieOrder \in TieOrders
    /\ atOpen = Snapshot
    /\ last = Idle

\* Rosbag2(bag_path) reads; Rosbag2(bag_path, recording=True) is open for writing only
Init == \E recording \in BOOLEAN : InitMode(~recording)

(***************************************************************************)
(* The SQL text each retrieval method formats, as the clauses it holds:    *)
(* the timestamp comparison, the ORDER BY direction and the LIMIT          *)
(* (0: no LIMIT clause).                                                   *)
(***************************************************************************)
\* faulty variant: the ORDER BY of get_entry without DESC
GetEntryQueryAscending(t) ==
    [cmp |-> "le", a |-> t, b |-> t, order |-> "ASC", limit |-> 1]

GetEntryQuery(t) ==
    [cmp |-> "le", a |-> t, b |-> t, order |-> "DESC", limit |-> 1]

\* faulty variant: timestamp>={} in get_entry_after
GetEntryAfterQueryInclusive(t) ==
    [cmp |-> "between", a |-> t, b |-> MaxTime, order |-> "ASC", limit |-> 1]

GetEntryAfterQuery(t) ==
    [cmp |-> "gt", a |-> t, b |-> t, order |-> "ASC", limit |-> 1]

\* faulty variant: timestamp<{} as the upper bound of get_entries_in_range
GetEntriesInRangeQueryExclusive(t_start, t_end) ==
    [cmp |-> "between", a |-> t_start, b |-> t_end - 1, order |-> "ASC", limit |-> 0]

GetEntriesInRangeQuery(t_start, t_end) ==
    [cmp |-> "between", a |-> t_start, b |-> t_end, order |-> "ASC", limit |-> 0]

TimestampMatches(q, ts) ==
    CASE q.cmp = "le" -> ts <= q.a
      [] q.cmp = "gt" -> ts > q.a
      [] q.cmp = "between" -> ts >= q.a /\ ts <= q.b

CatalogNames(tmm) ==
    IF tmm.present THEN {tmm.items[i].name : i \in DOMAIN tmm.items} ELSE {}

\* faulty variant: _execute_sql_query without its check of the requested topic
TopicNeverRejected(tmm, topic) == FALSE

\* "If there was a topic requested, make sure it is in this bag"
TopicRejected(tmm, topic) ==
    topic # None /\ topic \notin CatalogNames(tmm)

\* messages JOIN topics ON messages.topic_id = topics.id WHERE [topics.name = topic AND] <timestamp clause>
SelectedRows(msgs, tops, q, topic) ==
    {p \in (DOMAIN msgs) \X (DOMAIN tops) :
        /\ msgs[p[1]].topic_id = tops[p[2]].id
        /\ (topic # None => tops[p[2]].name = topic)
        /\ TimestampMatches(q, msgs[p[1]].timestamp)}

\* faulty variant: a descending scan that also reverses the rows of equal timestamp
RowBeforeBackwardScan(msgs, tie, q, p, r) ==
    LET tp == msgs[p[1]].timestamp
        tr == msgs[r[1]].timestamp
        first == IF q.order = "DESC" THEN "last_appended" ELSE "first_appended"
    IN  \/ (q.order = "ASC" /\ tp < tr)
        \/ (q.order = "DESC" /\ tp > tr)
        \/ /\ tp = tr
           /\ IF tie = first THEN p[1] < r[1] ELSE p[1] > r[1]

\* ORDER BY messages.timestamp [DESC]; rows with equal timestamps come in the engine's order
RowBefore(msgs, tie, q, p, r) ==
    LET tp == msgs[p[1]].timestamp
        tr == msgs[r[1]].timestamp
    IN  \/ (q.order = "ASC" /\ tp < tr)
        \/ (q.order = "DESC" /\ tp > tr)
        \/ /\ tp = tr
           /\ \/ (tie = "first_appended" /\ (p[1] < r[1] \/ (p[1] = r[1] /\ p[2] < r[2])))
              \/ (tie = "last_appended" /\ (p[1] > r[1] \/ (p[1] = r[1] /\ p[2] > r[2])))

OrderedRows(msgs, tie, q, sel) ==
    [k \in 1..Cardinality(sel) |->
        CHOOSE p \in sel : Cardinality({r \in sel : RowBefore(msgs, tie, q, r, p)}) = k - 1]

Limited(q, rows) ==
    IF q.limit > 0 /\ Len(rows) > q.limit THEN SubSeq(rows, 1, q.limit) ELSE rows

\* Entry = namedtuple('Entry', ['topic', 'data', 'timestamp']) over SELECT topics.name, data, timestamp
Entry(msgs, tops, p) ==
    [topic |-> tops[p[2]].name, data |-> msgs[p[1]].data, timestamp |-> msgs[p[1]].timestamp]

FetchAll(msgs, tops, tie, q, topic) ==
    LET rows == Limited(q, OrderedRows(msgs, tie, q, SelectedRows(msgs, tops, q, topic)))
    IN  [k \in DOMAIN rows |-> Entry(msgs, tops, rows[k])]

\* _execute_sql_query when the scan succeeds, over a given store and catalog
ExecuteSqlQueryOn(snap, tie, q, topic) ==
    IF TopicRejected(snap.topic_metadata_map, topic)
    THEN <<>>
    ELSE FetchAll(snap.messages, snap.topics, tie, q, topic)

ExecuteSqlQuery(q, topic) == ExecuteSqlQueryOn(Snapshot, tieOrder, q, topic)

\* result[0] if result else None
FirstOrNone(result) == IF Len(result) > 0 THEN EntryV(result[1]) ELSE NoneV

\* faulty variant: the retrieval methods without their write-only gate
WriteOnlyGateMissing == FALSE

\* if not self.reader
WriteOnly == ~reader

\* faulty variant: a write-only gate that raises
WriteOnlyRaises(op, t0, t1, topic) ==
    Raised(op, t0, t1, topic, NoEntry, "WrongModeError")

\* the write-only gate of the retrieval methods: warn, return None
WriteOnlyResult(op, t0, t1, topic) ==
    Returned(op, t0, t1, topic, NoEntry, NoneV)

\* with sqlite3.connect(self.db_name) as db: cursor = db.cursor(); execute; fetchall;
\* cursor.close(). The connection's context manager commits or rolls back and does
\* not close; cursor.close() is skipped when execute or fetchall raises.
Scanned(op, t0, t1, topic, fail, value) ==
    IF fail
    THEN CallRec(op, t0, t1, topic, NoEntry, "raised", "OperationalError", NoneV, "open", "open")
    ELSE CallRec(op, t0, t1, topic, NoEntry, "returned", None, value, "open", "closed")

(***************************************************************************)
(* One retrieval call: the gate, then _execute_sql_query. `point` tells    *)
(* whether the method returns result[0]/None or the list itself.           *)
(***************************************************************************)
Retrieve(op, t0, t1, topic, q, point) ==
    /\ last = Idle
    /\ IF WriteOnly
       THEN last' = WriteOnlyResult(op, t0, t1, topic)
       ELSE IF TopicRejected(topic_metadata_map, topic)
       THEN last' = Returned(op, t0, t1, topic, NoEntry,
                             IF point THEN FirstOrNone(<<>>) ELSE ListV(<<>>))
       ELSE \E fail \in BOOLEAN :
               last' = Scanned(op, t0, t1, topic, fail,
                               IF point THEN FirstOrNone(ExecuteSqlQuery(q, topic))
                                        ELSE ListV(ExecuteSqlQuery(q, topic)))
    /\ UNCHANGED <<reader, metadata, topic_metadata_map, topics, messages, tieOrder, atOpen>>

get_entry ==
    \E t \in QueryTimes, topic \in TopicArgs :
        Retrieve("get_entry", t, t, topic, GetEntryQuery(t), TRUE)

get_entry_after ==
    \E t \in QueryTimes, topic \in TopicArgs :
        Retrieve("get_entry_after", t, t, topic, GetEntryAfterQuery(t), TRUE)

get_entries_in_range ==
    \E t_start \in QueryTimes, t_end \in QueryTimes, topic \in TopicArgs :
        Retrieve("get_entries_in_range", t_start, t_end, topic,
                 GetEntriesInRangeQuery(t_start, t_end), FALSE)

(***************************************************************************)
(* The accessors. On a recording handle self.metadata and                  *)
(* self.topic_metadata_map were never assigned: reading them raises        *)
(* AttributeError.                                                         *)
(***************************************************************************)
Access(op, topic, entry, present, value) ==
    /\ last = Idle
    /\ last' = IF present
               THEN Returned(op, 0, 0, topic, entry, value)
               ELSE Raised(op, 0, 0, topic, entry, "AttributeError")
    /\ UNCHANGED <<reader, metadata, topic_metadata_map, topics, messages, tieOrder, atOpen>>

size ==
    Access("size", None, NoEntry, metadata.present,
           OtherV("int", metadata.bag_size))

get_earliest_timestamp ==
    Access("get_earliest_timestamp", None, NoEntry, metadata.present,
           OtherV("int", metadata.starting_time))

get_latest_timestamp ==
    Access("get_latest_timestamp", None, NoEntry, metadata.present,
           OtherV("int", metadata.starting_time + metadata.duration))

\* sorted(): the order of Python strings, on the names the model uses
StrBefore(a, b) ==
    LET rank(x) == CASE x = "/a" -> 1 [] x = "/b" -> 2 [] OTHER -> 3
    IN  rank(a) < rank(b)

SortedNames(S) ==
    [k \in 1..Cardinality(S) |->
        CHOOSE n \in S : Cardinality({m \in S : StrBefore(m, n)}) = k - 1]

get_topics ==
    Access("get_topics", None, NoEntry, topic_metadata_map.present,
           OtherV("names", SortedNames(CatalogNames(topic_metadata_map))))

GetTopicMetadata(tmm, topic) ==
    IF topic \notin CatalogNames(tmm)
    THEN NoneV
    ELSE OtherV("metadata", CHOOSE m \in {tmm.items[i] : i \in DOMAIN tmm.items} : m.name = topic)

GetTopicType(tmm, topic) ==
    IF topic \notin CatalogNames(tmm)
    THEN NoneV
    ELSE OtherV("str", GetTopicMetadata(tmm, topic).v[1].type)

get_topic_type ==
    \E topic \in TopicArgs \ {None} :
        Access("get_topic_type", topic, NoEntry, topic_metadata_map.present,
               GetTopicType(topic_metadata_map, topic))

get_topic_metadata ==
    \E topic \in TopicArgs \ {None} :
        Access("get_topic_metadata", topic, NoEntry, topic_metadata_map.present,
               GetTopicMetadata(topic_metadata_map, topic))

\* topics_by_type.setdefault(topic.type, []).append(name), in the map's insertion order
TopicsByType(tmm) ==
    LET names(type) == SelectSeq(tmm.items, LAMBDA m : m.type = type)
    IN  [type \in {tmm.items[i].type : i \in DOMAIN tmm.items} |->
            [k \in DOMAIN names(type) |-> names(type)[k].name]]

get_topics_by_type ==
    Access("get_topics_by_type", None, NoEntry, topic_metadata_map.present,
           OtherV("map", TopicsByType(topic_metadata_map)))

(***************************************************************************)
(* deserialize_entry. get_message and deserialize_message are library      *)
(* code: get_message raises on a name it cannot resolve (an AttributeError *)
(* on None, which has no split; a ModuleNotFoundError on a type whose      *)
(* package is not installed), and the method catches nothing.              *)
(***************************************************************************)
GetMessageError(type_name) ==
    IF type_name.kind = "none" THEN "AttributeError"
    ELSE IF type_name.v[1] \notin InstalledTypes THEN "ModuleNotFoundError"
    ELSE None

DeserializeMessage(data, msg_type) == [msg_type |-> msg_type, fields |-> <<"decoded", data>>]

DeserializeEntry(tmm, entry) ==
    LET msg_type_name == GetTopicType(tmm, entry.topic)
    IN  IF GetMessageError(msg_type_name) # None
        THEN Raised("deserialize_entry", 0, 0, None, entry, GetMessageError(msg_type_name))
        ELSE Returned("deserialize_entry", 0, 0, None, entry,
                      OtherV("triple", << DeserializeMessage(entry.data, msg_type_name.v[1]),
                                          msg_type_name.v[1], entry.topic >>))

\* the entries a caller holds: those of this bag, and one that came from elsewhere
EntryArgs ==
    {ForeignEntry} \cup
    {Entry(messages, topics, p) : p \in SelectedRows(messages, topics, GetEntryAfterQuery(0), None)}

\* faulty variant: a type lookup that takes the topic out of the map (dict.pop for dict.get)
deserialize_entry_popping ==
    \E entry \in EntryArgs :
        /\ last = Idle
        /\ topic_metadata_map.present
        /\ last' = DeserializeEntry(topic_metadata_map, entry)
        /\ topic_metadata_map' =
              [topic_metadata_map EXCEPT
                 !.items = SelectSeq(topic_metadata_map.items, LAMBDA m : m.name # entry.topic)]
        /\ UNCHANGED <<reader, metadata, topics, messages, tieOrder, atOpen>>

deserialize_entry ==
    \E entry \in EntryArgs :
        /\ last = Idle
        /\ last' = IF topic_metadata_map.present
                   THEN DeserializeEntry(topic_metadata_map, entry)
                   ELSE Raised("deserialize_entry", 0, 0, None, entry, "AttributeError")
        /\ UNCHANGED <<reader, metadata, topic_metadata_map, topics, messages, tieOrder, atOpen>>

\* The methods are synchronous: the caller takes what the call returned or raised,
\* and only then makes its next call.
Resume ==
    /\ last # Idle
    /\ last' = Idle
    /\ UNCHANGED <<reader, metadata, topic_metadata_map, topics, messages, tieOrder, atOpen>>

Next ==
    \/ size
    \/ get_earliest_timestamp
    \/ get_latest_timestamp
    \/ get_topics
    \/ get_topic_type
    \/ get_topic_metadata
    \/ get_topics_by_type
    \/ get_entry
    \/ get_entry_after
    \/ get_entries_in_range
    \/ deserialize_entry
    \/ Resume

Spec == Init /\ [][Next]_vars

(***************************************************************************)
(* What the claims speak of, stated on the tables themselves.              *)
(***************************************************************************)
IsPointQuery(op) == op \in {"get_entry", "get_entry_after"}
IsRetrieval(op) == IsPointQuery(op) \/ op = "get_entries_in_range"

TopicRowOf(id) == (CHOOSE i \in DOMAIN topics : topics[i].id = id)

StoredEntry(i) ==
    [topic |-> topics[TopicRowOf(messages[i].topic_id)].name,
     data |-> messages[i].data, timestamp |-> messages[i].timestamp]

\* the rows the topic filter of the last call leaves
FilteredRows == {i \in DOMAIN messages : last.topic = None \/ StoredEntry(i).topic = last.topic}
AtOrBefore == {i \in FilteredRows : messages[i].timestamp <= last.t0}
After == {i \in FilteredRows : messages[i].timestamp > last.t0}
InRange == {i \in FilteredRows : last.t0 <= messages[i].timestamp /\ messages[i].timestamp <= last.t1}

LastReturnedFrom(op) == reader /\ last.op = op /\ last.outcome = "returned"
LastReturnedEntry == last.value.v[1]

\* C1: on a reading handle get_entry(t, topic) returns a stored entry of the topic
\* with timestamp <= t whose timestamp is the greatest among them, and None exactly
\* when there is none.
C1_GetEntryIsLatestAtOrBefore ==
    LastReturnedFrom("get_entry") =>
        IF AtOrBefore = {}
        THEN last.value.kind = "none"
        ELSE /\ last.value.kind = "entry"
             /\ \E i \in AtOrBefore : LastReturnedEntry = StoredEntry(i)
             /\ \A j \in AtOrBefore : messages[j].timestamp <= LastReturnedEntry.timestamp

C1_Witness ==
    /\ LastReturnedFrom("get_entry")
    /\ last.topic # None
    /\ last.value.kind = "entry"
    /\ \E j \in AtOrBefore : messages[j].timestamp < LastReturnedEntry.timestamp
    /\ \E j \in DOMAIN messages \ FilteredRows : messages[j].timestamp <= last.t0

\* C2: on a reading handle get_entry_after(t, topic) returns a stored entry of the
\* topic with timestamp > t whose timestamp is the least among them, never one with
\* timestamp t, and None exactly when there is none.
C2_GetEntryAfterIsEarliestAfter ==
    LastReturnedFrom("get_entry_after") =>
        IF After = {}
        THEN last.value.kind = "none"
        ELSE /\ last.value.kind = "entry"
             /\ \E i \in After : LastReturnedEntry = StoredEntry(i)
             /\ LastReturnedEntry.timestamp > last.t0
             /\ \A j \in After : messages[j].timestamp >= LastReturnedEntry.timestamp

C2_Witness ==
    /\ LastReturnedFrom("get_entry_after")
    /\ last.topic # None
    /\ last.value.kind = "entry"
    /\ Cardinality(After) >= 2
    /\ \E j \in FilteredRows : messages[j].timestamp = last.t0

\* C3: on a reading handle get_entries_in_range(t0, t1, topic) returns the stored
\* entries of the topic with t0 <= timestamp <= t1, each once, by non-decreasing
\* timestamp; nothing when t0 > t1.
C3_RangeIsExactAndOrdered ==
    LastReturnedFrom("get_entries_in_range") =>
        /\ last.value.kind = "list"
        /\ {last.value.v[k] : k \in DOMAIN last.value.v} = {StoredEntry(i) : i \in InRange}
        /\ Len(last.value.v) = Cardinality(InRange)
        /\ \A k, l \in DOMAIN last.value.v :
              k < l => last.value.v[k].timestamp <= last.value.v[l].timestamp
        /\ (last.t0 > last.t1 => last.value.v = <<>>)

C3_Witness ==
    /\ LastReturnedFrom("get_entries_in_range")
    /\ last.topic # None
    /\ Len(last.value.v) >= 2
    /\ last.value.v[1].timestamp < last.value.v[Len(last.value.v)].timestamp
    /\ \E i \in DOMAIN messages \ FilteredRows :
          last.t0 <= messages[i].timestamp /\ messages[i].timestamp <= last.t1
    /\ \E i, j \in InRange : i < j /\ messages[i].timestamp > messages[j].timestamp

LastRetrievalOnWriteOnly == ~reader /\ IsRetrieval(last.op) /\ last.outcome # "idle"

\* C4 as stated: on a handle open for writing only, the point queries return None
\* and the range query returns an empty sequence, none raises or opens the store.
C4_WriteOnlyRangeReturnsEmptySequence ==
    LastRetrievalOnWriteOnly =>
        /\ last.outcome = "returned"
        /\ last.conn = "none"
        /\ IF IsPointQuery(last.op)
           THEN last.value.kind = "none"
           ELSE last.value.kind = "list" /\ last.value.v = <<>>

\* C4, amended: on a handle open for writing only, get_entry, get_entry_after and
\* get_entries_in_range all return None (the range query too, not an empty
\* sequence), without raising and without opening the store.
C4_WriteOnlyReturnsNone ==
    LastRetrievalOnWriteOnly =>
        /\ last.outcome = "returned"
        /\ last.value = NoneV
        /\ last.conn = "none"
        /\ last.cursor = "none"

C4_Witness ==
    /\ LastRetrievalOnWriteOnly
    /\ last.op = "get_entries_in_range"
    /\ InRange # {}

\* C5 as stated: a retrieval call on a handle open for writing only fails with a
\* WrongModeError and never completes with a result value.
C5_WriteOnlyRaisesWrongModeError ==
    LastRetrievalOnWriteOnly =>
        last.outcome = "raised" /\ last.exc = "WrongModeError"

\* C5, amended: a retrieval call on a handle open for writing only completes
\* normally (with the result None); it raises no WrongModeError nor any other error.
C5_WriteOnlyCompletesNormally ==
    LastRetrievalOnWriteOnly =>
        last.outcome # "raised" /\ last.exc = None

C5_Witness ==
    /\ LastRetrievalOnWriteOnly
    /\ IsPointQuery(last.op)
    /\ last.topic # None
    /\ AtOrBefore # {}

\* C6: on a reading handle, a retrieval call whose topic is not in the catalog
\* returns (an empty sequence for the range query, None for the point queries)
\* without raising and without opening the store.
C6_UnknownTopicIsEmptyNotError ==
    (reader /\ IsRetrieval(last.op) /\ last.outcome # "idle"
        /\ last.topic # None
        /\ last.topic \notin {topic_metadata_map.items[i].name : i \in DOMAIN topic_metadata_map.items})
    =>  /\ last.outcome = "returned"
        /\ last.conn = "none"
        /\ IF IsPointQuery(last.op)
           THEN last.value.kind = "none"
           ELSE last.value.kind = "list" /\ last.value.v = <<>>

C6_Witness ==
    /\ reader
    /\ last.op = "get_entries_in_range"
    /\ last.outcome = "returned"
    /\ last.topic = UnknownTopic
    /\ \E i \in DOMAIN messages : last.t0 <= messages[i].timestamp /\ messages[i].timestamp <= last.t1

\* C7 as stated: deserialize_entry fails with UnknownTypeError, and with nothing
\* else, whenever the entry's type cannot be resolved (the topic is not in the
\* catalog, or the type is not installed), and returns the triple (message, type
\* name, topic) otherwise.
C7_UnresolvedTypeRaisesUnknownTypeError ==
    (reader /\ last.op = "deserialize_entry") =>
        LET known == {m \in {topic_metadata_map.items[i] : i \in DOMAIN topic_metadata_map.items} :
                         m.name = last.entry.topic /\ m.type \in InstalledTypes}
        IN  IF known = {}
            THEN last.outcome = "raised" /\ last.exc = "UnknownTypeError"
            ELSE /\ last.outcome = "returned"
                 /\ last.value.kind = "triple"
                 /\ \E m \in known : /\ last.value.v[1][2] = m.type
                                     /\ last.value.v[1][3] = last.entry.topic

\* the rows among which the last point query had to choose: those of the selected timestamp
TiedRows ==
    IF last.op = "get_entry"
    THEN {i \in AtOrBefore : \A j \in AtOrBefore : messages[j].timestamp <= messages[i].timestamp}
    ELSE {i \in After : \A j \in After : messages[j].timestamp >= messages[i].timestamp}

LastQuery ==
    CASE last.op = "get_entry" -> GetEntryQuery(last.t0)
      [] last.op = "get_entry_after" -> GetEntryAfterQuery(last.t0)
      [] last.op = "get_entries_in_range" -> GetEntriesInRangeQuery(last.t0, last.t1)

AnswerOn(snap, tie) ==
    IF IsPointQuery(last.op)
    THEN FirstOrNone(ExecuteSqlQueryOn(snap, tie, LastQuery, last.topic))
    ELSE ListV(ExecuteSqlQueryOn(snap, tie, LastQuery, last.topic))

LastScanReturned ==
    reader /\ IsRetrieval(last.op) /\ last.outcome = "returned" /\ last.conn # "none"

RowOf(e) == CHOOSE i \in DOMAIN messages : StoredEntry(i) = e

EngineFirst(S) ==
    IF tieOrder = "first_appended"
    THEN CHOOSE i \in S : \A j \in S : i <= j
    ELSE CHOOSE i \in S : \A j \in S : i >= j

AccessorAnswerOn(snap) ==
    CASE last.op = "size" -> OtherV("int", snap.metadata.bag_size)
      [] last.op = "get_earliest_timestamp" -> OtherV("int", snap.metadata.starting_time)
      [] last.op = "get_latest_timestamp" ->
            OtherV("int", snap.metadata.starting_time + snap.metadata.duration)
      [] last.op = "get_topics" -> OtherV("names", SortedNames(CatalogNames(snap.topic_metadata_map)))
      [] last.op = "get_topic_type" -> GetTopicType(snap.topic_metadata_map, last.topic)
      [] last.op = "get_topic_metadata" -> GetTopicMetadata(snap.topic_metadata_map, last.topic)
      [] last.op = "get_topics_by_type" -> OtherV("map", TopicsByType(snap.topic_metadata_map))
      [] last.op = "deserialize_entry" -> DeserializeEntry(snap.topic_metadata_map, last.entry).value

\* C9: no sequence of calls changes the stored entries, the topic catalog or the
\* bag metadata: in every reachable state they are what they were when the handle
\* was opened, and what a call returns is what it would have returned then.
C9_CallsChangeNothing ==
    /\ Snapshot = atOpen
    /\ (reader /\ last.outcome = "returned") =>
          IF IsRetrieval(last.op)
          THEN last.value = AnswerOn(atOpen, tieOrder)
          ELSE last.value = AccessorAnswerOn(atOpen)

C9_Witness ==
    /\ reader
    /\ last.op = "get_entries_in_range"
    /\ last.outcome = "returned"
    /\ Len(last.value.v) = Len(messages)
    /\ Len(messages) >= 2

\* C10 as stated: when a retrieval call has returned or raised, every connection
\* and cursor it opened has been closed.
C10_CallLeavesNothingOpen ==
    IsRetrieval(last.op) => last.conn # "open" /\ last.cursor # "open"

====
